---------------------------- MODULE Spec2Model ----------------------------
(***************************************************************************)
(* A model of the radiology dataset loader: RadiologyDataset               *)
(* (src/utils/dataset.py), get_transforms (src/utils/transforms.py) and    *)
(* the main script (src/main.py).                                          *)
(*                                                                         *)
(* Strings are sequences of one-character strings, so that strip, basename,*)
(* endswith, join and the ordering of sorted() are computed character by   *)
(* character as the Python library computes them.                          *)
(***************************************************************************)
EXTENDS Integers, Sequences, FiniteSets, TLC

VARIABLES
    doc,          \* SpecParse: the XML document handed to _parse_xml
    parsed,       \* SpecParse: what _parse_xml returned
    dir_entries,  \* the names os.listdir(xml_dir) yields
    xml_docs,     \* the content of each listed *.xml entry
    image_store,  \* the image directory: basename -> "ok" | "corrupt" | "missing"
    ds,           \* the RadiologyDataset object (its four attributes)
    result,       \* the outcome of the last __len__ / __getitem__ call
    observed,     \* at most one earlier __getitem__ call and its outcome, kept for comparison
    pc,           \* SpecMain: the position of main()
    env,          \* SpecMain: arguments of main() and the state of the three paths
    sample,       \* SpecMain: the local variable sample of main()
    saved,        \* SpecMain: the file names written into save_dir, in order
    logged,       \* SpecMain: the messages handed to logger.debug, in order
    outcome       \* SpecMain: how main() ended

vars == <<doc, parsed, dir_entries, xml_docs, image_store, ds, result, observed,
          pc, env, sample, saved, logged, outcome>>

parseVars == <<doc, parsed>>
worldVars == <<dir_entries, xml_docs, image_store>>
dsVars    == <<ds, result, observed>>
mainVars  == <<pc, env, sample, saved, logged, outcome>>

---------------------------------------------------------------------------
(* Bounds of the model                                                     *)

MaxChildren == 2
MaxParents  == 2
MaxFiles    == 2

---------------------------------------------------------------------------
(* Python values                                                           *)

\* None, and a str value
NoneVal == [isNone |-> TRUE]
Str(s)  == [isNone |-> FALSE, s |-> s]

\* the truth value Python gives an element's text: None and "" are false
Truthy(t) == (~t.isNone) /\ t.s # <<>>

\* str(x) as an f-string renders it: None is rendered as the word None
Format(t) == IF t.isNone THEN <<"N", "o", "n", "e">> ELSE t.s

\* the characters str.strip() removes when called without an argument
Whitespace == {" ", "\n", "\t"}

RECURSIVE LStrip(_, _)
LStrip(s, chars) ==
    IF s # <<>> /\ Head(s) \in chars THEN LStrip(Tail(s), chars) ELSE s

RECURSIVE RStrip(_, _)
RStrip(s, chars) ==
    IF s # <<>> /\ s[Len(s)] \in chars
    THEN RStrip(SubSeq(s, 1, Len(s) - 1), chars)
    ELSE s

\* str.strip(chars)
Strip(s, chars) == RStrip(LStrip(s, chars), chars)

\* sep.join(pieces)
RECURSIVE JoinStr(_, _)
JoinStr(sep, pieces) ==
    IF pieces = <<>> THEN <<>>
    ELSE IF Len(pieces) = 1 THEN pieces[1]
    ELSE pieces[1] \o sep \o JoinStr(sep, Tail(pieces))

\* the index of the last "/" of s, 0 when there is none
RECURSIVE LastSlash(_, _)
LastSlash(s, i) ==
    IF i = 0 THEN 0 ELSE IF s[i] = "/" THEN i ELSE LastSlash(s, i - 1)

\* os.path.basename (posixpath): what follows the last "/"
Basename(p) == SubSeq(p, LastSlash(p, Len(p)) + 1, Len(p))

\* os.path.join(a, b) (posixpath)
PathJoin(a, b) ==
    IF b # <<>> /\ Head(b) = "/" THEN b
    ELSE IF a = <<>> \/ a[Len(a)] = "/" THEN a \o b
    ELSE a \o <<"/">> \o b

\* str.endswith(suffix)
EndsWith(s, suffix) ==
    /\ Len(s) >= Len(suffix)
    /\ SubSeq(s, Len(s) - Len(suffix) + 1, Len(s)) = suffix

---------------------------------------------------------------------------
(* ElementTree                                                             *)

\* Element.find(tag) over the children carrying that tag, in document order:
\* the first of them, or None
Find(children) ==
    IF children = <<>> THEN [present |-> FALSE]
    ELSE [present |-> TRUE, elem |-> Head(children)]

\* an optional element of the record that carries only text
Absent     == [present |-> FALSE]
Elem(text) == [present |-> TRUE, text |-> text]

---------------------------------------------------------------------------
(* RadiologyDataset._parse_xml                                             *)

\* the loop over abstract.findall('AbstractText')
RECURSIVE ReportTexts(_)
ReportTexts(children) ==
    IF children = <<>> THEN <<>>
    ELSE (IF Truthy(Head(children))
          THEN <<Strip(Head(children).s, Whitespace)>>
          ELSE <<>>) \o ReportTexts(Tail(children))

\* a variant of Report that joins the pieces without a separator
ReportConcatenated(d) ==
    JoinStr(<<>>,
            IF d.abstract.present THEN ReportTexts(d.abstract.children) ELSE <<>>)

Report(d) ==
    JoinStr(<<" ">>,
            IF d.abstract.present THEN ReportTexts(d.abstract.children) ELSE <<>>)

\* x.find(tag).text if x.find(tag) is not None else ""
DatePart(e) == IF e.present THEN e.text ELSE Str(<<>>)

ArticleDate(ad) ==
    Strip(Format(DatePart(ad.Year)) \o <<"-">> \o Format(DatePart(ad.Month))
            \o <<"-">> \o Format(DatePart(ad.Day)),
          {"-"})

MetadataKeys(d) ==
    (IF d.article_date.present THEN {"article_date"} ELSE {})
      \cup (IF d.title.present /\ Truthy(d.title.text) THEN {"title"} ELSE {})
      \cup (IF d.specialty.present /\ Truthy(d.specialty.text)
            THEN {"specialty"} ELSE {})

Metadata(d) ==
    [k \in MetadataKeys(d) |->
        CASE k = "article_date" -> ArticleDate(d.article_date)
          [] k = "title"        -> Strip(d.title.text.s, Whitespace)
          [] k = "specialty"    -> Strip(d.specialty.text.s, Whitespace)]

\* a variant of ImagePathOf that joins the whole url, not its basename
ImagePathOfWholeUrl(parent, image_dir) ==
    LET panel == Find(parent) IN
    IF ~panel.present THEN <<>>
    ELSE LET url_elem == Find(panel.elem) IN
         IF url_elem.present /\ Truthy(url_elem.elem)
         THEN <<PathJoin(image_dir, Strip(url_elem.elem.s, Whitespace))>>
         ELSE <<>>

\* one pass of the loop over root.findall('parentImage'): a parentImage is the
\* sequence of its panel children, a panel the sequence of the texts of its
\* url children
ImagePathOf(parent, image_dir) ==
    LET panel == Find(parent) IN
    IF ~panel.present THEN <<>>
    ELSE LET url_elem == Find(panel.elem) IN
         IF url_elem.present /\ Truthy(url_elem.elem)
         THEN <<PathJoin(image_dir, Basename(Strip(url_elem.elem.s, Whitespace)))>>
         ELSE <<>>

RECURSIVE ImagePaths(_, _)
ImagePaths(parents, image_dir) ==
    IF parents = <<>> THEN <<>>
    ELSE ImagePathOf(Head(parents), image_dir) \o ImagePaths(Tail(parents), image_dir)

parse_xml(d, image_dir) ==
    [report      |-> Report(d),
     metadata    |-> Metadata(d),
     image_paths |-> ImagePaths(d.parentImages, image_dir)]

---------------------------------------------------------------------------
(* get_transforms: the steps of the T.Compose it returns.  Fractions are   *)
(* written in thousandths.                                                 *)

Compose(steps) == [isNone |-> FALSE, steps |-> steps]

ToTensor == [op |-> "ToTensor"]
Normalize == [op |-> "Normalize", mean |-> <<485, 456, 406>>, std |-> <<229, 224, 225>>]

\* a variant of get_transforms whose augmenting mode resizes instead of cropping
\* and leaves out the normalization
get_transforms_unnormalized(augment) ==
    IF augment
    THEN Compose(<<[op |-> "RandomHorizontalFlip"],
                   [op |-> "RandomRotation", degrees |-> 15],
                   [op |-> "Resize", size |-> <<224, 224>>],
                   [op |-> "ColorJitter", brightness |-> 100, contrast |-> 100,
                    saturation |-> 100, hue |-> 100],
                   ToTensor>>)
    ELSE Compose(<<[op |-> "Resize", size |-> <<224, 224>>],
                   ToTensor,
                   Normalize>>)

get_transforms(augment) ==
    IF augment
    THEN Compose(<<[op |-> "RandomHorizontalFlip"],
                   [op |-> "RandomRotation", degrees |-> 15],
                   [op |-> "RandomResizedCrop", size |-> <<224, 224>>,
                    scale |-> <<500, 1000>>],
                   [op |-> "ColorJitter", brightness |-> 100, contrast |-> 100,
                    saturation |-> 100, hue |-> 100],
                   ToTensor,
                   Normalize>>)
    ELSE Compose(<<[op |-> "Resize", size |-> <<224, 224>>],
                   ToTensor,
                   Normalize>>)

---------------------------------------------------------------------------
(* RadiologyDataset.__init__ and __len__                                   *)

\* code points of the characters that occur in the names of the model
CodePoint ==
    [c \in {".", "/", "B", "a", "b", "d", "l", "m", "s", "t", "x"} |->
        CASE c = "." -> 46 [] c = "/" -> 47 [] c = "B" -> 66 [] c = "a" -> 97
          [] c = "b" -> 98 [] c = "d" -> 100 [] c = "l" -> 108 [] c = "m" -> 109
          [] c = "s" -> 115 [] c = "t" -> 116 [] c = "x" -> 120]

\* a < b on Python strings: by code point, a proper prefix first
RECURSIVE StrLess(_, _)
StrLess(a, b) ==
    IF a = <<>> THEN b # <<>>
    ELSE IF b = <<>> THEN FALSE
    ELSE IF Head(a) = Head(b) THEN StrLess(Tail(a), Tail(b))
    ELSE CodePoint[Head(a)] < CodePoint[Head(b)]

\* sorted(S) for strings
RECURSIVE SortedStrs(_)
SortedStrs(S) ==
    IF S = {} THEN <<>>
    ELSE LET least == CHOOSE x \in S : \A y \in S \ {x} : StrLess(x, y)
         IN  <<least>> \o SortedStrs(S \ {least})

DotXml == <<".", "x", "m", "l">>

\* ".xml" occurs somewhere in s
Contains(s, sub) ==
    \E i \in 1..Len(s) : i + Len(sub) - 1 <= Len(s) /\ SubSeq(s, i, i + Len(sub) - 1) = sub

\* a variant of XmlFiles that keeps every name containing ".xml"
XmlFilesContaining(xml_dir, listing) ==
    SortedStrs({PathJoin(xml_dir, f) : f \in {g \in listing : Contains(g, DotXml)}})

\* sorted([os.path.join(xml_dir, f) for f in os.listdir(xml_dir) if f.endswith('.xml')])
XmlFiles(xml_dir, listing) ==
    SortedStrs({PathJoin(xml_dir, f) : f \in {g \in listing : EndsWith(g, DotXml)}})

RadiologyDataset_init(xml_dir, image_dir, transform, listing) ==
    [constructed |-> TRUE,
     xml_dir     |-> xml_dir,
     image_dir   |-> image_dir,
     transform   |-> transform,
     xml_files   |-> XmlFiles(xml_dir, listing)]

RadiologyDataset_len(d) == Len(d.xml_files)

---------------------------------------------------------------------------
(* RadiologyDataset.__getitem__                                            *)

Raise(error, at) == [kind |-> "raise", error |-> error, at |-> at]

\* Image.open(image_path).convert("RGB") against the image directory
OpenImage(image_path, store) ==
    LET name == Basename(image_path) IN
    IF name = <<>>
    THEN [ok |-> FALSE, error |-> "IsADirectoryError"]
    ELSE IF name \notin DOMAIN store \/ store[name] = "missing"
    THEN [ok |-> FALSE, error |-> "FileNotFoundError"]
    ELSE IF store[name] = "corrupt"
    THEN [ok |-> FALSE, error |-> "UnidentifiedImageError"]
    ELSE [ok |-> TRUE, img |-> [path |-> image_path, mode |-> "RGB", applied |-> <<>>]]

\* img = self.transform(img) when a transform is configured
ApplyTransform(transform, img) ==
    IF transform.isNone THEN img ELSE [img EXCEPT !.applied = transform.steps]

\* a variant of LoadImages that skips an image it cannot open
RECURSIVE LoadImagesSkipping(_, _, _, _)
LoadImagesSkipping(paths, transform, store, images) ==
    IF paths = <<>> THEN [ok |-> TRUE, images |-> images]
    ELSE LET opened == OpenImage(Head(paths), store) IN
         LoadImagesSkipping(Tail(paths), transform, store,
                            IF opened.ok
                            THEN Append(images, ApplyTransform(transform, opened.img))
                            ELSE images)

\* the loop over data["image_paths"]; images holds what was appended so far
RECURSIVE LoadImages(_, _, _, _)
LoadImages(paths, transform, store, images) ==
    IF paths = <<>> THEN [ok |-> TRUE, images |-> images]
    ELSE LET opened == OpenImage(Head(paths), store) IN
         IF opened.ok
         THEN LoadImages(Tail(paths), transform, store,
                         Append(images, ApplyTransform(transform, opened.img)))
         ELSE [ok |-> FALSE, error |-> opened.error, at |-> Head(paths)]

\* a variant of ListIndex that wraps every index into the list
ListIndexWrapping(n, idx) == IF n = 0 THEN idx ELSE idx % n

\* self.xml_files[idx]: a negative idx counts from the end of the list
ListIndex(n, idx) == IF idx < 0 THEN idx + n ELSE idx

RadiologyDataset_getitem(d, idx, docs, store) ==
    LET n == Len(d.xml_files)
        i == ListIndex(n, idx)
    IN  IF i < 0 \/ i >= n THEN Raise("IndexError", <<>>)
        ELSE LET xml_file == d.xml_files[i + 1]
                 content  == docs[Basename(xml_file)]
             IN  IF ~content.wellformed THEN Raise("ParseError", xml_file)
                 ELSE LET data   == parse_xml(content, d.image_dir)
                          loaded == LoadImages(data.image_paths, d.transform, store, <<>>)
                      IN  IF loaded.ok
                          THEN [kind     |-> "sample",
                                images   |-> loaded.images,
                                report   |-> data.report,
                                metadata |-> data.metadata]
                          ELSE Raise(loaded.error, loaded.at)

---------------------------------------------------------------------------
(* The inputs: XML documents                                               *)

\* every sequence over S of length at most n
SeqsUpTo(S, n) == UNION {[1..k -> S] : k \in 0..n}

\* texts an AbstractText child may carry
AbstractTexts ==
    {NoneVal, Str(<<"A">>), Str(<<" ", "A", "\n">>), Str(<<"B">>), Str(<<" ">>)}

Abstracts ==
    {Absent} \cup {[present |-> TRUE, children |-> c] :
                      c \in SeqsUpTo(AbstractTexts, MaxChildren)}

\* texts of a Year, Month or Day element
DateTexts == {NoneVal, Str(<<"1", "9">>), Str(<<"-">>)}
DateElems == {Absent} \cup {Elem(t) : t \in DateTexts}

ArticleDates ==
    {Absent} \cup {[present |-> TRUE, Year |-> y, Month |-> m, Day |-> d] :
                      y \in DateElems, m \in DateElems, d \in DateElems}

\* ArticleTitle and specialty elements
TextElems == {Absent, Elem(NoneVal), Elem(Str(<<" ", "T", " ">>)), Elem(Str(<<" ">>))}

UrlA == Str(<<"h", ":", "/", "x", "/", "A">>)
UrlB == Str(<<" ", "B", " ">>)

\* a panel: the texts of its url children
Panels ==
    {<<>>, <<NoneVal>>, <<UrlA>>, <<UrlB>>, <<Str(<<" ">>)>>, <<NoneVal, UrlA>>}

\* a parentImage: its panel children
ParentImages ==
    {<<>>} \cup {<<p>> : p \in Panels} \cup {<< <<>>, <<UrlA>> >>, << <<UrlB>>, <<UrlA>> >>}

EmptyDoc ==
    [wellformed |-> TRUE, abstract |-> Absent, article_date |-> Absent,
     title |-> Absent, specialty |-> Absent, parentImages |-> <<>>]

\* the documents _parse_xml is applied to: every abstract, every date, every
\* title and specialty, every list of parentImage elements
ParseDocs ==
    {[EmptyDoc EXCEPT !.abstract = a] : a \in Abstracts}
      \cup {[EmptyDoc EXCEPT !.article_date = ad] : ad \in ArticleDates}
      \cup {[EmptyDoc EXCEPT !.title = t, !.specialty = s] :
               t \in TextElems, s \in TextElems}
      \cup {[EmptyDoc EXCEPT !.parentImages = ps] :
               ps \in SeqsUpTo(ParentImages, MaxParents)}

ImageDirs == {<<"i">>, <<"i", "/">>}

NoDataset == [constructed |-> FALSE]
NoResult  == [kind |-> "none"]

---------------------------------------------------------------------------
(* SpecParse: _parse_xml applied to one document                           *)

InitParse ==
    /\ doc \in ParseDocs
    /\ parsed = NoResult
    /\ dir_entries = {}
    /\ xml_docs = <<>>
    /\ image_store = <<>>
    /\ \E image_dir \in ImageDirs :
          ds = [constructed |-> TRUE, xml_dir |-> <<"d">>, image_dir |-> image_dir,
                transform |-> NoneVal, xml_files |-> <<>>]
    /\ result = NoResult
    /\ observed = {}
    /\ pc = "idle"
    /\ env = <<>>
    /\ sample = NoResult
    /\ saved = <<>>
    /\ logged = <<>>
    /\ outcome = [ends |-> "none"]

ParseXml ==
    /\ parsed = NoResult
    /\ parsed' = [kind |-> "parsed", data |-> parse_xml(doc, ds.image_dir)]
    /\ UNCHANGED <<doc, worldVars, dsVars, mainVars>>

NextParse == ParseXml

SpecParse == InitParse /\ [][NextParse]_vars

---------------------------------------------------------------------------
(* The inputs: the XML directory and the image directory                   *)

\* names os.listdir(xml_dir) may yield
EntryNames ==
    {<<"a", ".", "x", "m", "l">>, <<"B", ".", "x", "m", "l">>,
     <<"a", "b", ".", "x", "m", "l">>, <<"a", ".", "x", "m", "l", "s">>}

\* at most MaxFiles of them are XML files
Listings ==
    {l \in SUBSET EntryNames : Cardinality({g \in l : EndsWith(g, DotXml)}) <= MaxFiles}

DocReport ==
    [EmptyDoc EXCEPT !.abstract = [present |-> TRUE,
                                   children |-> <<Str(<<"A">>), Str(<<"B">>)>>],
                     !.title = Elem(Str(<<" ", "T", " ">>))]
DocTwoImages ==
    [EmptyDoc EXCEPT !.abstract = [present |-> TRUE, children |-> <<Str(<<"B">>)>>],
                     !.parentImages = << <<<<UrlA>>>>, <<<<UrlB>>>> >>]
\* a parentImage without panel, one whose panel has no url, one whose url is
\* empty, one whose second panel alone carries a url, and an ordinary one
DocSkipped ==
    [EmptyDoc EXCEPT !.parentImages =
        << <<>>, << <<>> >>, <<<<NoneVal>>>>, << <<>>, <<UrlA>> >>, <<<<UrlB>>>> >>]
DocMalformed == [EmptyDoc EXCEPT !.wellformed = FALSE]

\* the documents the XML directory may hold
DirDocs == {DocReport, DocTwoImages, DocSkipped, DocMalformed}

ImageNames == {<<"A">>, <<"B">>}
ImageStores ==
    {[n \in ImageNames |-> "ok"],
     [n \in ImageNames |-> IF n = <<"A">> THEN "missing" ELSE "ok"],
     [n \in ImageNames |-> IF n = <<"A">> THEN "ok" ELSE "corrupt"]}

\* the arguments RadiologyDataset is constructed with
Constructions ==
    {[xml_dir |-> <<"d">>, image_dir |-> <<"i">>, transform |-> NoneVal],
     [xml_dir |-> <<"d", "/">>, image_dir |-> <<"i", "/">>,
      transform |-> get_transforms(FALSE)]}

\* the indices __getitem__ is called with
Indices == (0 - (MaxFiles + 1)) .. (MaxFiles + 1)

---------------------------------------------------------------------------
(* Spec: a RadiologyDataset over a fixed directory content                 *)

Init ==
    /\ doc = EmptyDoc
    /\ parsed = NoResult
    /\ dir_entries \in Listings
    /\ xml_docs \in [{g \in dir_entries : EndsWith(g, DotXml)} -> DirDocs]
    /\ image_store \in ImageStores
    /\ ds = NoDataset
    /\ result = NoResult
    /\ observed = {}
    /\ pc = "idle"
    /\ env = <<>>
    /\ sample = NoResult
    /\ saved = <<>>
    /\ logged = <<>>
    /\ outcome = [ends |-> "none"]

Construct ==
    /\ ~ds.constructed
    /\ \E c \in Constructions :
          ds' = RadiologyDataset_init(c.xml_dir, c.image_dir, c.transform, dir_entries)
    /\ UNCHANGED <<parseVars, worldVars, result, observed, mainVars>>

CallLen ==
    /\ ds.constructed
    /\ result' = [kind |-> "len", value |-> RadiologyDataset_len(ds)]
    /\ UNCHANGED <<parseVars, worldVars, ds, observed, mainVars>>

\* a variant of GetItem that consumes the file it has read
GetItemConsuming(idx) ==
    /\ ds.constructed
    /\ result' = [call |-> idx] @@ RadiologyDataset_getitem(ds, idx, xml_docs, image_store)
    /\ \/ observed = {} /\ observed' = {[again |-> FALSE] @@ result'}
       \/ observed' = {[o EXCEPT !.again = @ \/ o.call = idx] : o \in observed}
    /\ ds' = [ds EXCEPT !.xml_files = IF @ = <<>> THEN @ ELSE Tail(@)]
    /\ UNCHANGED <<parseVars, worldVars, mainVars>>

GetItem(idx) ==
    /\ ds.constructed
    /\ result' = [call |-> idx] @@ RadiologyDataset_getitem(ds, idx, xml_docs, image_store)
    /\ \/ observed = {} /\ observed' = {[again |-> FALSE] @@ result'}
       \/ observed' = {[o EXCEPT !.again = @ \/ o.call = idx] : o \in observed}
    /\ UNCHANGED <<parseVars, worldVars, ds, mainVars>>

Next ==
    \/ Construct
    \/ CallLen
    \/ \E idx \in Indices : GetItem(idx)

Spec == Init /\ [][Next]_vars

---------------------------------------------------------------------------
(* main.py                                                                 *)

\* a variant of check_create_paths that creates the save directory first
check_create_paths_makedirs_first(e) ==
    IF e.save_dir = "file"
    THEN [ends |-> "raise", message |-> "FileExistsError", env |-> e]
    ELSE IF e.xml_dir = "absent"
    THEN [ends |-> "exit", message |-> "Error: XML directory not found.",
          env |-> [e EXCEPT !.save_dir = "dir"]]
    ELSE IF e.image_dir = "absent"
    THEN [ends |-> "exit", message |-> "Error: Image directory not found.",
          env |-> [e EXCEPT !.save_dir = "dir"]]
    ELSE [ends |-> "return", message |-> "All directories are present and correct.",
          env |-> [e EXCEPT !.save_dir = "dir"]]

\* check_create_paths: what it does to the paths of e and how it ends.
\* os.path.exists is true of a file as of a directory; os.makedirs with
\* exist_ok=True fails on a path that is a file.
check_create_paths(e) ==
    IF e.xml_dir = "absent"
    THEN [ends |-> "exit", message |-> "Error: XML directory not found.", env |-> e]
    ELSE IF e.image_dir = "absent"
    THEN [ends |-> "exit", message |-> "Error: Image directory not found.", env |-> e]
    ELSE IF e.save_dir = "file"
    THEN [ends |-> "raise", message |-> "FileExistsError", env |-> e]
    ELSE [ends |-> "return", message |-> "All directories are present and correct.",
          env |-> [e EXCEPT !.save_dir = "dir"]]

\* os.path.join(save_dir, f'sample_image_{i+1}.jpg') for the i-th image, i from 0
SampleFile(i) == [stem |-> "sample_image_", number |-> i + 1, ext |-> ".jpg"]

\* report.items(): report is sample['report'], the str that " ".join builds in
\* _parse_xml, and a str has no items()
ReportItems(report) == [ok |-> FALSE, error |-> "AttributeError"]

ConfigureLogger ==
    /\ pc = "configure_logger"
    /\ pc' = "check_create_paths"
    /\ UNCHANGED <<parseVars, worldVars, dsVars, env, sample, saved, logged, outcome>>

CheckCreatePaths ==
    /\ pc = "check_create_paths"
    /\ LET r == check_create_paths(env) IN
          /\ env' = r.env
          /\ IF r.ends = "return"
             THEN /\ logged' = Append(logged, [msg |-> r.message])
                  /\ pc' = "construct"
                  /\ UNCHANGED outcome
             ELSE /\ outcome' = [ends |-> r.ends, message |-> r.message]
                  /\ pc' = "done"
                  /\ UNCHANGED logged
    /\ UNCHANGED <<parseVars, worldVars, dsVars, sample, saved>>

\* dataset = RadiologyDataset(xml_dir, image_dir, transform=get_transforms(augment))
ConstructDataset ==
    /\ pc = "construct"
    /\ logged' = Append(logged, [msg |-> "Initializing the dataset...",
                                 augmenting |-> env.augment])
    /\ IF env.xml_dir = "dir"
       THEN /\ ds' = RadiologyDataset_init(<<"d">>, <<"i">>,
                                           get_transforms(env.augment), dir_entries)
            /\ pc' = "getitem"
            /\ UNCHANGED outcome
       ELSE /\ outcome' = [ends |-> "raise", message |-> "NotADirectoryError"]
            /\ pc' = "done"
            /\ UNCHANGED ds
    /\ UNCHANGED <<parseVars, worldVars, result, observed, env, sample, saved>>

\* sample = dataset[0], and the logging of its metadata
LoadSample ==
    /\ pc = "getitem"
    /\ LET got == RadiologyDataset_getitem(ds, 0, xml_docs, image_store) IN
          IF got.kind = "sample"
          THEN /\ sample' = got
               /\ logged' = Append(logged, [msg |-> "Dataset sample metadata:",
                                            value |-> got.metadata])
               /\ pc' = "save"
               /\ UNCHANGED outcome
          ELSE /\ outcome' = [ends |-> "raise", message |-> got.error]
               /\ pc' = "done"
               /\ UNCHANGED <<sample, logged>>
    /\ UNCHANGED <<parseVars, worldVars, dsVars, env, saved>>

\* one pass of the loop over enumerate(sample['images'])
SaveImage ==
    /\ pc = "save"
    /\ Len(saved) < Len(sample.images)
    /\ saved' = Append(saved, SampleFile(Len(saved)))
    /\ UNCHANGED <<parseVars, worldVars, dsVars, pc, env, sample, logged, outcome>>

\* the lines after the loop
LogReport ==
    /\ pc = "save"
    /\ Len(saved) = Len(sample.images)
    /\ LET items == ReportItems(sample.report) IN
          IF items.ok
          THEN /\ logged' = Append(logged, [msg |-> "Sample report:"]) \o items.lines
               /\ outcome' = [ends |-> "return", message |-> "None"]
          ELSE /\ logged' = Append(logged, [msg |-> "Sample report:"])
               /\ outcome' = [ends |-> "raise", message |-> items.error]
    /\ pc' = "done"
    /\ UNCHANGED <<parseVars, worldVars, dsVars, env, sample, saved>>

PathStates == {"absent", "dir", "file"}

InitMain ==
    /\ doc = EmptyDoc
    /\ parsed = NoResult
    /\ env \in [xml_dir : PathStates, image_dir : {"absent", "dir"},
                save_dir : PathStates, save_dir_before : PathStates,
                augment : BOOLEAN]
    /\ env.save_dir = env.save_dir_before
    /\ IF env.xml_dir = "dir" THEN dir_entries \in Listings ELSE dir_entries = {}
    /\ xml_docs \in [{g \in dir_entries : EndsWith(g, DotXml)} -> DirDocs]
    /\ image_store \in ImageStores
    /\ ds = NoDataset
    /\ result = NoResult
    /\ observed = {}
    /\ pc = "configure_logger"
    /\ sample = NoResult
    /\ saved = <<>>
    /\ logged = <<>>
    /\ outcome = [ends |-> "running"]

NextMain ==
    \/ ConfigureLogger
    \/ CheckCreatePaths
    \/ ConstructDataset
    \/ LoadSample
    \/ SaveImage
    \/ LogReport

SpecMain == InitMain /\ [][NextMain]_vars

---------------------------------------------------------------------------
(* Properties                                                              *)

Range(seq) == {seq[i] : i \in 1..Len(seq)}

\* the last call was a __getitem__
Accessed == result.kind \in {"sample", "raise"}

Size == Len(ds.xml_files)

\* the document a call with an index inside [-Size, Size) reads
DocAt(idx) ==
    xml_docs[Basename(ds.xml_files[(IF idx < 0 THEN idx + Size ELSE idx) + 1])]

IndexError == result.kind = "raise" /\ result.error = "IndexError"

\* C1 (as stated): dataset[idx] fails with an out-of-range error for every idx
\* with idx >= n or idx < 0.
C1_Original ==
    Accessed /\ (result.call >= Size \/ result.call < 0) => IndexError

\* C1 (amended): dataset[idx] fails with an out-of-range error exactly when
\* idx >= n or idx < -n; an index with -n <= idx < 0 is not rejected and yields
\* what index n + idx yields.
C1_OutOfRange ==
    Accessed =>
        /\ IndexError <=> (result.call >= Size \/ result.call < 0 - Size)
        /\ (0 - Size <= result.call /\ result.call < 0) =>
              result = [call |-> result.call] @@
                          RadiologyDataset_getitem(ds, result.call + Size,
                                                   xml_docs, image_store)

C1_Witness ==
    /\ Accessed /\ Size = 2
    /\ result.call = 0 - 1
    /\ result.kind = "sample"

\* the name ends in ".xml", character by character
IsXmlName(f) ==
    /\ Len(f) >= 4
    /\ f[Len(f) - 3] = "." /\ f[Len(f) - 2] = "x"
    /\ f[Len(f) - 1] = "m" /\ f[Len(f)] = "l"

\* C2: after construction xml_files holds exactly one full path for every
\* directory entry whose name ends in ".xml" and no other, in ascending
\* lexicographic order, and __len__ returns its length.
C2_XmlFiles ==
    ds.constructed =>
        /\ Range(ds.xml_files) =
              {PathJoin(ds.xml_dir, f) : f \in {g \in dir_entries : IsXmlName(g)}}
        /\ Len(ds.xml_files) = Cardinality({g \in dir_entries : IsXmlName(g)})
        /\ \A i, j \in 1..Len(ds.xml_files) :
              i < j => StrLess(ds.xml_files[i], ds.xml_files[j])
        /\ result.kind = "len" =>
              result.value = Cardinality({g \in dir_entries : IsXmlName(g)})

C2_Witness ==
    /\ ds.constructed
    /\ result.kind = "len" /\ result.value = 2
    /\ \E g \in dir_entries : ~IsXmlName(g)
    /\ ds.xml_files = << <<"d", "/", "B", ".", "x", "m", "l">>,
                         <<"d", "/", "a", ".", "x", "m", "l">> >>

\* C3: with the files unchanged, no call changes the attributes of the
\* dataset, and an access of an index yields the report and the metadata
\* (or the failure) that an earlier access of the same index yielded.
C3_Repeatable ==
    [][/\ ds.constructed => ds' = ds
       /\ \A o \in observed :
             (result'.kind \in {"sample", "raise"} /\ result'.call = o.call) =>
                /\ result'.kind = o.kind
                /\ o.kind = "sample" =>
                      /\ result'.report = o.report
                      /\ result'.metadata = o.metadata
                /\ o.kind = "raise" => result'.error = o.error]_vars

\* an index was read, kept, and read again later
C3_Witness ==
    /\ \E o \in observed :
          /\ o.again
          /\ o.kind = "sample" /\ o.call = 1 /\ o.report # <<>>
          /\ "title" \in DOMAIN o.metadata
          /\ result.kind = "sample" /\ result.call = 1
    /\ Size = 2

\* the first image path of a sequence that cannot be opened, 0 when all can
RECURSIVE FirstFailing(_, _)
FirstFailing(paths, j) ==
    IF j > Len(paths) THEN 0
    ELSE IF Basename(paths[j]) \in DOMAIN image_store
            /\ image_store[Basename(paths[j])] = "ok"
    THEN FirstFailing(paths, j + 1)
    ELSE j

InRange == Accessed /\ 0 - Size <= result.call /\ result.call < Size

\* C4: when opening the j-th of the k image paths of a record fails,
\* __getitem__ raises that failure: no sample is returned, neither one
\* without the failing image nor one holding the first j-1 images.
C4_ImageFailure ==
    (InRange /\ DocAt(result.call).wellformed) =>
        LET paths == parse_xml(DocAt(result.call), ds.image_dir).image_paths
            j     == FirstFailing(paths, 1)
        IN  j > 0 =>
              /\ result.kind = "raise"
              /\ result.at = paths[j]
              /\ result.error \in {"FileNotFoundError", "UnidentifiedImageError",
                                   "IsADirectoryError"}

\* the second of two images is corrupt
C4_Witness ==
    /\ InRange
    /\ DocAt(result.call) = DocTwoImages
    /\ image_store[<<"A">>] = "ok" /\ image_store[<<"B">>] = "corrupt"
    /\ result.kind = "raise" /\ result.error = "UnidentifiedImageError"
    /\ Basename(result.at) = <<"B">>

NonEmptyText(t) == (~t.isNone) /\ Len(t.s) > 0

\* some panel of the parentImage has a url with text
HasPanelWithUrl(parent) ==
    \E i \in 1..Len(parent) : \E k \in 1..Len(parent[i]) : NonEmptyText(parent[i][k])

\* the first panel of the parentImage has a first url with text
FirstPanelFirstUrl(parent) ==
    /\ Len(parent) > 0
    /\ Len(parent[1]) > 0
    /\ NonEmptyText(parent[1][1])

\* C5 (as stated): the images of a sample correspond one-to-one, in document
\* order, to the parentImage elements that have a panel with a non-empty url.
C5_Original ==
    result.kind = "sample" =>
        LET with == SelectSeq(DocAt(result.call).parentImages, HasPanelWithUrl)
        IN  /\ Len(result.images) = Len(with)
            /\ \A n \in 1..Len(with) :
                  \E i \in 1..Len(with[n]) : \E k \in 1..Len(with[n][i]) :
                     /\ NonEmptyText(with[n][i][k])
                     /\ result.images[n].path =
                           PathJoin(ds.image_dir,
                                    Basename(Strip(with[n][i][k].s, Whitespace)))

\* C5 (amended): the images of a sample correspond one-to-one, in document
\* order, to the top-level parentImage elements whose first panel child has a
\* first url child with non-empty text; each is loaded from image_dir joined
\* with the basename of that url; every other parentImage is skipped, and a
\* record without parentImage elements yields an empty list.
C5_Images ==
    result.kind = "sample" =>
        LET with == SelectSeq(DocAt(result.call).parentImages, FirstPanelFirstUrl)
        IN  /\ Len(result.images) = Len(with)
            /\ \A n \in 1..Len(with) :
                  /\ result.images[n].path =
                        PathJoin(ds.image_dir,
                                 Basename(Strip(with[n][1][1].s, Whitespace)))
                  /\ result.images[n].mode = "RGB"
            /\ DocAt(result.call).parentImages = <<>> => result.images = <<>>

\* a record with skipped parentImage elements and one image
C5_Witness ==
    /\ result.kind = "sample"
    /\ DocAt(result.call) = DocSkipped
    /\ Len(result.images) = 1
    /\ Basename(result.images[1].path) = <<"B">>

\* the AbstractText children of the document that have text, stripped
Pieces ==
    IF doc.abstract.present
    THEN LET kept == SelectSeq(doc.abstract.children, NonEmptyText)
         IN  [i \in 1..Len(kept) |-> Strip(kept[i].s, Whitespace)]
    ELSE <<>>

\* where the i-th piece starts in the report: after the pieces before it and
\* one character for each of them
RECURSIVE Offset(_, _)
Offset(pieces, i) ==
    IF i = 1 THEN 0 ELSE Offset(pieces, i - 1) + Len(pieces[i - 1]) + 1

\* C6: the report is the stripped texts of the AbstractText children that
\* have text, in document order, with exactly one space between consecutive
\* pieces; it is empty when there is no Abstract or no child has text.
C6_Report ==
    parsed.kind = "parsed" =>
        LET r == parsed.data.report
            k == Len(Pieces)
        IN  /\ k = 0 => r = <<>>
            /\ k > 0 => Len(r) = Offset(Pieces, k) + Len(Pieces[k])
            /\ \A i \in 1..k :
                  SubSeq(r, Offset(Pieces, i) + 1, Offset(Pieces, i) + Len(Pieces[i]))
                     = Pieces[i]
            /\ \A i \in 2..k : r[Offset(Pieces, i)] = " "

\* children "A" and "B" give "A B"
C6_Witness ==
    /\ parsed.kind = "parsed"
    /\ doc.abstract.present
    /\ doc.abstract.children = <<Str(<<"A">>), Str(<<"B">>)>>
    /\ parsed.data.report = <<"A", " ", "B">>

\* the text of an optional sub-element: empty when the element is missing or
\* has no text
TextOrEmpty(e) == IF e.present /\ ~e.text.isNone THEN e.text.s ELSE <<>>

\* C7: metadata has a date exactly when an ArticleDate element exists; its
\* year, month and day are the texts of the sub-elements, empty when missing
\* or empty, joined with hyphens, without a leading or trailing hyphen.
C7_Date ==
    parsed.kind = "parsed" =>
        /\ "article_date" \in DOMAIN parsed.data.metadata <=> doc.article_date.present
        /\ doc.article_date.present =>
              LET date == parsed.data.metadata["article_date"] IN
              /\ date = Strip(TextOrEmpty(doc.article_date.Year) \o <<"-">>
                                \o TextOrEmpty(doc.article_date.Month) \o <<"-">>
                                \o TextOrEmpty(doc.article_date.Day), {"-"})
              /\ date # <<>> => date[1] # "-" /\ date[Len(date)] # "-"

Plain ==
    <<[op |-> "Resize", size |-> <<224, 224>>],
      [op |-> "ToTensor"],
      [op |-> "Normalize", mean |-> <<485, 456, 406>>, std |-> <<229, 224, 225>>]>>

Random == {"RandomHorizontalFlip", "RandomRotation", "RandomResizedCrop", "ColorJitter"}

\* C8: the steps of get_transforms(augment) depend on the flag alone: without
\* augmentation resize to 224x224, tensor conversion and the normalization,
\* none of them random; with it flip, rotation up to 15 degrees, random
\* resized crop to 224 with scale 0.5-1.0, colour jitter of 0.1, in that
\* order, then the same tensor conversion and normalization.
C8_Transforms ==
    ds.constructed =>
        LET steps == ds.transform.steps IN
        /\ ~ds.transform.isNone
        /\ ~env.augment =>
              /\ steps = Plain
              /\ \A i \in 1..Len(steps) : steps[i].op \notin Random
        /\ env.augment =>
              /\ Len(steps) = 6
              /\ steps[1] = [op |-> "RandomHorizontalFlip"]
              /\ steps[2] = [op |-> "RandomRotation", degrees |-> 15]
              /\ steps[3] = [op |-> "RandomResizedCrop", size |-> <<224, 224>>,
                             scale |-> <<500, 1000>>]
              /\ steps[4] = [op |-> "ColorJitter", brightness |-> 100,
                             contrast |-> 100, saturation |-> 100, hue |-> 100]
              /\ SubSeq(steps, 5, 6) = SubSeq(Plain, 2, 3)

\* an augmenting run whose sample images went through the six steps
C8_Witness ==
    /\ env.augment
    /\ sample.kind = "sample"
    /\ sample.images # <<>>
    /\ Len(sample.images[1].applied) = 6

\* C9: when both directories exist and the first sample loads with n images,
\* main writes sample_image_1.jpg .. sample_image_n.jpg, then logs the report
\* and the metadata, and returns normally.
C9_MainCompletes ==
    (pc = "done" /\ sample.kind = "sample") =>
        /\ outcome.ends = "return"
        /\ saved = [i \in 1..Len(sample.images) |-> SampleFile(i - 1)]
        /\ \E i \in 1..Len(logged) :
              "value" \in DOMAIN logged[i] /\ logged[i].value = sample.report
        /\ \E i \in 1..Len(logged) :
              "value" \in DOMAIN logged[i] /\ logged[i].value = sample.metadata

CheckedPaths == [msg |-> "All directories are present and correct."] \in Range(logged)

\* C10: the existence checks come before the construction of the dataset: with
\* a directory missing the process exits, the dataset is never constructed, no
\* sample is accessed and the save directory is not created; with both
\* present the save directory exists before the first image is written.
C10_ChecksFirst ==
    /\ ds.constructed =>
          /\ CheckedPaths
          /\ env.xml_dir # "absent" /\ env.image_dir # "absent"
    /\ (env.xml_dir = "absent" \/ env.image_dir = "absent") =>
          /\ ~ds.constructed
          /\ sample = NoResult /\ saved = <<>>
          /\ env.save_dir = env.save_dir_before
          /\ pc = "done" => outcome.ends = "exit"
    /\ saved # <<>> => CheckedPaths /\ env.save_dir = "dir"

\* the image directory is missing and the save directory was not there
C10_Witness ==
    /\ pc = "done"
    /\ outcome.ends = "exit"
    /\ env.xml_dir = "dir" /\ env.image_dir = "absent"
    /\ env.save_dir_before = "absent" /\ env.save_dir = "absent"

===========================================================================
